---- MODULE Spec2Model ----
(***************************************************************************)
(* SensorthingsBackend (pygeobox/api/backend/sensorthings.py): an adapter  *)
(* that maps collection operations onto HTTP calls against a SensorThings  *)
(* service.  Python strings are sequences of one-character strings, so     *)
(* that splitting, int() parsing and f-string formatting are computed.     *)
(* Every public method is one action; the remote service's answers are     *)
(* inputs of the action.  The state after an action is the record of the   *)
(* call: its arguments, the HTTP exchanges it made, and its outcome.       *)
(***************************************************************************)
EXTENDS Integers, Sequences, FiniteSets, TLC

VARIABLES
    url,            \* self.url, set by the constructor
    pc,             \* "idle": no call in progress; "done": a call has ended
    op,             \* the method that ran ("none" when idle)
    collection_id,  \* argument of every method
    items,          \* argument of upsert_collection_items
    method,         \* argument of upsert_collection_items
    item_id,        \* argument of delete_collection_item
    listing,        \* response["value"] of the GET of delete_collection
    calls,          \* the HTTP exchanges of the call, in order
    result,         \* "True", "False", or the name of the exception raised
    emptied         \* endpoint of the last successful delete_collection, if
                    \* no later call has sent a request to the service

vars == <<url, pc, op, collection_id, items, method, item_id, listing,
          calls, result, emptied>>

----------------------------------------------------------------------------
(* Bounds of the model *)

MaxCollLen == 2
MaxIdLen == 3
MaxItems == 2

RECURSIVE SeqsOfLen(_, _)
SeqsOfLen(S, n) ==
    IF n = 0 THEN {<<>>}
    ELSE {Append(s, x) : s \in SeqsOfLen(S, n - 1), x \in S}

SeqsUpTo(S, n) == UNION {SeqsOfLen(S, k) : k \in 0..n}

CollChars == {"a", "."}
CollectionIds == SeqsUpTo(CollChars, MaxCollLen) \ {<<>>}

IdChars == {"5", "0", " ", "+", "-", "_", "a"}
ItemIdStrings == SeqsUpTo(IdChars, MaxIdLen)

BaseUrls == {<<"h">>}

Methods == {"POST", "PATCH", "DELETE", "PUT"}

StatusCodes == {200, 204, 404}

\* what one HTTP call can end in: a response, or a transport exception
Outcomes ==
    {[raised |-> FALSE, status_code |-> c] : c \in StatusCodes}
        \cup {[raised |-> TRUE, status_code |-> 0]}

\* the value of an entity's "@iot.id": a JSON number, a JSON string, or
\* no such key
IotIds ==
    {[kind |-> "int", num |-> 5, txt |-> <<>>],
     [kind |-> "str", num |-> 0, txt |-> <<"a">>]}
NoIotId == [kind |-> "none", num |-> 0, txt |-> <<>>]

ListedEntities == IotIds              \* the service lists entities with ids
CallerEntities == IotIds \cup {NoIotId}

----------------------------------------------------------------------------
(* Python string operations the adapter uses *)

\* s.split(sep): the segments of s between the separators, in order
RECURSIVE Split(_, _)
Split(s, sep) ==
    IF \A i \in 1..Len(s) : s[i] # sep THEN <<s>>
    ELSE LET i == CHOOSE k \in 1..Len(s) :
                      s[k] = sep /\ \A j \in 1..(k - 1) : s[j] # sep
         IN  <<SubSeq(s, 1, i - 1)>> \o Split(SubSeq(s, i + 1, Len(s)), sep)

\* list.pop(): the last element
Pop(l) == l[Len(l)]

DigitChars == <<"0", "1", "2", "3", "4", "5", "6", "7", "8", "9">>
IsDigit(c) == \E d \in 1..10 : DigitChars[d] = c
DigitValue(c) == (CHOOSE d \in 1..10 : DigitChars[d] = c) - 1

RECURSIVE LStrip(_)
LStrip(s) == IF s # <<>> /\ Head(s) = " " THEN LStrip(Tail(s)) ELSE s

RECURSIVE RStrip(_)
RStrip(s) ==
    IF s # <<>> /\ s[Len(s)] = " " THEN RStrip(SubSeq(s, 1, Len(s) - 1)) ELSE s

\* the digit part of a decimal literal: digits, with single underscores
\* allowed between digits only
ValidDigits(b) ==
    /\ b # <<>>
    /\ \A i \in 1..Len(b) : IsDigit(b[i]) \/ b[i] = "_"
    /\ b[1] # "_"
    /\ b[Len(b)] # "_"
    /\ \A i \in 1..(Len(b) - 1) : ~(b[i] = "_" /\ b[i + 1] = "_")

RECURSIVE DigitsValue(_)
DigitsValue(b) ==
    IF b = <<>> THEN 0
    ELSE LET init == SubSeq(b, 1, Len(b) - 1)
             last == b[Len(b)]
         IN  IF last = "_" THEN DigitsValue(init)
             ELSE 10 * DigitsValue(init) + DigitValue(last)

\* a parser that accepts plain digit strings only
ParseIntDigitsOnly(s) ==
    IF s # <<>> /\ \A i \in 1..Len(s) : IsDigit(s[i])
    THEN [ok |-> TRUE, val |-> DigitsValue(s)]
    ELSE [ok |-> FALSE, val |-> 0]

\* int(s) for a str s: surrounding whitespace is stripped, one sign is
\* accepted, then a decimal literal; ok = FALSE stands for ValueError
ParseInt(s) ==
    LET t == RStrip(LStrip(s))
        signed == t # <<>> /\ Head(t) \in {"+", "-"}
        body == IF signed THEN Tail(t) ELSE t
    IN  IF ValidDigits(body)
        THEN [ok |-> TRUE,
              val |-> IF signed /\ Head(t) = "-" THEN 0 - DigitsValue(body)
                      ELSE DigitsValue(body)]
        ELSE [ok |-> FALSE, val |-> 0]

RECURSIVE NatToStr(_)
NatToStr(n) ==
    IF n < 10 THEN <<DigitChars[n + 1]>>
    ELSE NatToStr(n \div 10) \o <<DigitChars[(n % 10) + 1]>>

\* str(n) for an int n
IntToStr(n) == IF n < 0 THEN <<"-">> \o NatToStr(0 - n) ELSE NatToStr(n)

\* f'{v}' for the value v of an "@iot.id" key
Format(v) == IF v.kind = "int" THEN IntToStr(v.num) ELSE v.txt

\* f"'{s}'"
Quoted(s) == <<"'">> \o s \o <<"'">>

\* f'{sta_index}({segment})'
ItemUrl(sta_index, segment) == sta_index \o <<"(">> \o segment \o <<")">>

\* pygeobox.util.url_join
UrlJoin(base, part) == base \o <<"/">> \o part

\* sta_id with the first segment of the identifier
sta_id_first(collection) == UrlJoin(url, Split(collection, ".")[1])

sta_id(collection) == UrlJoin(url, Pop(Split(collection, ".")))

----------------------------------------------------------------------------
(* The methods: each yields the HTTP exchanges it makes and its outcome *)

Exchange(verb, u, o) ==
    [verb |-> verb, url |-> u, raised |-> o.raised,
     status_code |-> o.status_code]

\* what the GET of delete_collection can end in: a transport exception, a
\* JSON body without "value", or a JSON body listing entities
GetOutcomes ==
    {[raised |-> TRUE, status_code |-> 0, has_value |-> FALSE, value |-> <<>>],
     [raised |-> FALSE, status_code |-> 404, has_value |-> FALSE,
      value |-> <<>>]}
        \cup {[raised |-> FALSE, status_code |-> 200, has_value |-> TRUE,
               value |-> l] : l \in SeqsUpTo(ListedEntities, MaxItems)}

Scripts(n) == [1..n -> Outcomes]

\* a success test that accepts 200 only
OkOnly200(r) == r.status_code = 200

\* requests.Response.ok
Ok(r) == r.status_code < 400

add_collection_accepts(collection) == [calls |-> <<>>, result |-> "True"]

add_collection(collection) ==
    [calls |-> <<>>, result |-> "NotImplementedError"]

\* has_collection that answers from what the adapter last emptied
has_collection_checks(collection) ==
    [calls |-> <<>>,
     result |-> IF emptied = sta_id(collection) THEN "False" ELSE "True"]

has_collection(collection) == [calls |-> <<>>, result |-> "True"]

\* the loop of delete_collection without the early return
RECURSIVE DeleteLoopKeepsGoing(_, _, _, _)
DeleteLoopKeepsGoing(sta_index, value, script, i) ==
    IF i > Len(value) THEN [calls |-> <<>>, result |-> "True"]
    ELSE LET x == Exchange("DELETE",
                           ItemUrl(sta_index, Format(value[i])), script[i])
             rest == DeleteLoopKeepsGoing(sta_index, value, script, i + 1)
         IN  IF script[i].raised
             THEN [calls |-> <<x>>, result |-> "TransportError"]
             ELSE [calls |-> <<x>> \o rest.calls,
                   result |-> IF script[i].status_code # 200 THEN "False"
                              ELSE rest.result]

\* for item in response["value"]: ... ; return True
RECURSIVE DeleteLoop(_, _, _, _)
DeleteLoop(sta_index, value, script, i) ==
    IF i > Len(value) THEN [calls |-> <<>>, result |-> "True"]
    ELSE LET x == Exchange("DELETE",
                           ItemUrl(sta_index, Format(value[i])), script[i])
             rest == DeleteLoop(sta_index, value, script, i + 1)
         IN  IF script[i].raised
             THEN [calls |-> <<x>>, result |-> "TransportError"]
             ELSE IF script[i].status_code # 200
             THEN [calls |-> <<x>>, result |-> "False"]
             ELSE [calls |-> <<x>> \o rest.calls, result |-> rest.result]

delete_collection(collection, get, script) ==
    LET sta_index == sta_id(collection)
        g == Exchange("GET", sta_index, get)
        loop == DeleteLoop(sta_index, get.value, script, 1)
    IN  IF get.raised THEN [calls |-> <<g>>, result |-> "TransportError"]
        ELSE IF ~get.has_value THEN [calls |-> <<g>>, result |-> "KeyError"]
        ELSE [calls |-> <<g>> \o loop.calls, result |-> loop.result]

\* for entity in items: ... ; return True
RECURSIVE UpsertLoop(_, _, _, _, _)
UpsertLoop(sta_index, entities, verb, script, i) ==
    IF i > Len(entities) THEN [calls |-> <<>>, result |-> "True"]
    ELSE IF verb \notin {"PATCH", "DELETE", "POST"}
    THEN [calls |-> <<>>, result |-> "ValueError"]
    ELSE IF verb \in {"PATCH", "DELETE"} /\ entities[i] = NoIotId
    THEN [calls |-> <<>>, result |-> "KeyError"]
    ELSE LET target ==
                 IF verb = "PATCH"
                 THEN ItemUrl(sta_index, Quoted(Format(entities[i])))
                 ELSE IF verb = "DELETE"
                 THEN ItemUrl(sta_index, Format(entities[i]))
                 ELSE sta_index
             r == Exchange(verb, target, script[i])
             rest == UpsertLoop(sta_index, entities, verb, script, i + 1)
         IN  IF script[i].raised
             THEN [calls |-> <<r>>, result |-> "TransportError"]
             ELSE IF ~Ok(r) THEN [calls |-> <<r>>, result |-> "False"]
             ELSE [calls |-> <<r>> \o rest.calls, result |-> rest.result]

upsert_collection_items(collection, entities, verb, script) ==
    UpsertLoop(sta_id(collection), entities, verb, script, 1)

delete_collection_item(collection, id, outcome) ==
    LET sta_index == sta_id(collection)
        parsed == ParseInt(id)
        segment == IF parsed.ok THEN IntToStr(parsed.val) ELSE Quoted(id)
        x == Exchange("DELETE", ItemUrl(sta_index, segment), outcome)
    IN  [calls |-> <<x>>,
         result |-> IF outcome.raised THEN "False" ELSE "True"]

----------------------------------------------------------------------------
(* The state machine *)

NoEndpoint == <<>>

Init ==
    /\ url \in BaseUrls
    /\ pc = "idle"
    /\ op = "none"
    /\ collection_id = <<>>
    /\ items = <<>>
    /\ method = ""
    /\ item_id = <<>>
    /\ listing = <<>>
    /\ calls = <<>>
    /\ result = "none"
    /\ emptied = NoEndpoint

AddCollection ==
    /\ pc = "idle"
    /\ \E c \in CollectionIds :
          LET r == add_collection(c)
          IN  /\ collection_id' = c
              /\ calls' = r.calls
              /\ result' = r.result
    /\ op' = "add_collection"
    /\ pc' = "done"
    /\ UNCHANGED <<url, items, method, item_id, listing, emptied>>

HasCollection ==
    /\ pc = "idle"
    /\ \E c \in CollectionIds :
          LET r == has_collection(c)
          IN  /\ collection_id' = c
              /\ calls' = r.calls
              /\ result' = r.result
    /\ op' = "has_collection"
    /\ pc' = "done"
    /\ UNCHANGED <<url, items, method, item_id, listing, emptied>>

DeleteCollection ==
    /\ pc = "idle"
    /\ \E c \in CollectionIds, get \in GetOutcomes :
          \E script \in Scripts(Len(get.value)) :
             LET r == delete_collection(c, get, script)
             IN  /\ collection_id' = c
                 /\ listing' = get.value
                 /\ calls' = r.calls
                 /\ result' = r.result
                 /\ emptied' = IF r.result = "True" THEN sta_id(c)
                               ELSE NoEndpoint
    /\ op' = "delete_collection"
    /\ pc' = "done"
    /\ UNCHANGED <<url, items, method, item_id>>

UpsertCollectionItems ==
    /\ pc = "idle"
    /\ \E c \in CollectionIds, m \in Methods,
          l \in SeqsUpTo(CallerEntities, MaxItems) :
          \E script \in Scripts(Len(l)) :
             LET r == upsert_collection_items(c, l, m, script)
             IN  /\ collection_id' = c
                 /\ items' = l
                 /\ method' = m
                 /\ calls' = r.calls
                 /\ result' = r.result
                 /\ emptied' = IF r.calls = <<>> THEN emptied ELSE NoEndpoint
    /\ op' = "upsert_collection_items"
    /\ pc' = "done"
    /\ UNCHANGED <<url, item_id, listing>>

DeleteCollectionItem ==
    /\ pc = "idle"
    /\ \E c \in CollectionIds, id \in ItemIdStrings, o \in Outcomes :
          LET r == delete_collection_item(c, id, o)
          IN  /\ collection_id' = c
              /\ item_id' = id
              /\ calls' = r.calls
              /\ result' = r.result
    /\ emptied' = NoEndpoint
    /\ op' = "delete_collection_item"
    /\ pc' = "done"
    /\ UNCHANGED <<url, items, method, listing>>

\* the call has ended and its outcome has gone to the caller; the adapter
\* keeps nothing of it
Return ==
    /\ pc = "done"
    /\ pc' = "idle"
    /\ op' = "none"
    /\ collection_id' = <<>>
    /\ items' = <<>>
    /\ method' = ""
    /\ item_id' = <<>>
    /\ listing' = <<>>
    /\ calls' = <<>>
    /\ result' = "none"
    /\ UNCHANGED <<url, emptied>>

Next ==
    \/ AddCollection
    \/ HasCollection
    \/ DeleteCollection
    \/ UpsertCollectionItems
    \/ DeleteCollectionItem
    \/ Return

Spec == Init /\ [][Next]_vars

----------------------------------------------------------------------------
(* Vocabulary of the properties *)

Done(o) == pc = "done" /\ op = o

\* the part of an identifier after its last dot (all of it without a dot)
TrailingSegment(s) ==
    LET dots == {i \in 1..Len(s) : s[i] = "."}
    IN  IF dots = {} THEN s
        ELSE SubSeq(s, (CHOOSE i \in dots : \A j \in dots : j <= i) + 1,
                    Len(s))

\* the endpoint the call's collection is expected to resolve to
Endpoint == UrlJoin(url, TrailingSegment(collection_id))

Returned(x) == ~x.raised
Returned200(x) == ~x.raised /\ x.status_code = 200
Successful(x) == ~x.raised /\ x.status_code < 400

\* the DELETE exchanges of delete_collection: all exchanges after the GET
ItemDeletes == SubSeq(calls, 2, Len(calls))

\* u is the endpoint e itself or an item path e(...) below it
IsUnder(u, e) ==
    /\ Len(u) >= Len(e)
    /\ SubSeq(u, 1, Len(e)) = e
    /\ \/ Len(u) = Len(e)
       \/ Len(u) >= Len(e) + 2 /\ u[Len(e) + 1] = "(" /\ u[Len(u)] = ")"

----------------------------------------------------------------------------
(* C1: delete_collection issues one GET on the collection endpoint, then
   DELETEs for the listed items in listing order, one per item, addressed
   <endpoint>(<@iot.id>); if the k-th DELETE is the first to return a status
   other than 200, exactly k DELETEs are issued and the result is False. *)
C1_DeleteCollectionFailsFast ==
    Done("delete_collection") =>
        /\ Len(calls) >= 1
        /\ calls[1].verb = "GET"
        /\ calls[1].url = Endpoint
        /\ Len(ItemDeletes) <= Len(listing)
        /\ \A i \in 1..Len(ItemDeletes) :
              /\ ItemDeletes[i].verb = "DELETE"
              /\ ItemDeletes[i].url = ItemUrl(Endpoint, Format(listing[i]))
        /\ \A k \in 1..Len(ItemDeletes) :
              ( /\ Returned(ItemDeletes[k])
                /\ ItemDeletes[k].status_code # 200
                /\ \A j \in 1..(k - 1) : Returned200(ItemDeletes[j]) )
              => (Len(ItemDeletes) = k /\ result = "False")

\* the first of two listed items is answered 404: one DELETE, result False
C1_Witness ==
    /\ Done("delete_collection")
    /\ Len(listing) = 2
    /\ Len(ItemDeletes) = 1
    /\ Returned(ItemDeletes[1])
    /\ ItemDeletes[1].status_code = 404
    /\ result = "False"

(* C2: upsert_collection_items with a method outside POST, PATCH, DELETE
   fails with ValueError for every items list, the empty list included, and
   issues no HTTP call. *)
C2_UnknownMethodAlwaysRaises ==
    (Done("upsert_collection_items") /\ method \notin {"POST", "PATCH", "DELETE"})
        => (result = "ValueError" /\ calls = <<>>)

(* C3: delete_collection_item never propagates an exception and returns
   True only when the DELETE succeeded: it returns False when the DELETE
   raises and when the service answers with a non-success status. *)
C3_DeleteItemReportsFailure ==
    Done("delete_collection_item") =>
        /\ result \in {"True", "False"}
        /\ Len(calls) = 1
        /\ (result = "True") <=> Successful(calls[1])

(* C4: upsert_collection_items with method POST, PATCH or DELETE issues one
   call per processed item, in list order, with the method as verb (POST to
   the endpoint, PATCH and DELETE to the item's parenthesized path); if the
   k-th call is the first unsuccessful response, exactly k calls are issued
   and the result is False; the result is True iff every item's call was
   successful. *)
C4_UpsertOneCallPerItem ==
    (Done("upsert_collection_items") /\ method \in {"POST", "PATCH", "DELETE"})
        =>
        /\ Len(calls) <= Len(items)
        /\ \A i \in 1..Len(calls) :
              /\ calls[i].verb = method
              /\ IF method = "POST" THEN calls[i].url = Endpoint
                 ELSE calls[i].url \in
                          {ItemUrl(Endpoint, Format(items[i])),
                           ItemUrl(Endpoint, Quoted(Format(items[i])))}
        /\ \A k \in 1..Len(calls) :
              ( /\ Returned(calls[k])
                /\ ~Successful(calls[k])
                /\ \A j \in 1..(k - 1) : Successful(calls[j]) )
              => (Len(calls) = k /\ result = "False")
        /\ (result = "True") <=>
              ( /\ Len(calls) = Len(items)
                /\ \A i \in 1..Len(calls) : Successful(calls[i]) )

\* a PATCH of two items whose first call is answered 404
C4_Witness ==
    /\ Done("upsert_collection_items")
    /\ method = "PATCH"
    /\ Len(items) = 2
    /\ Len(calls) = 1
    /\ Returned(calls[1])
    /\ calls[1].status_code = 404
    /\ result = "False"

(* C5: delete_collection returns True whenever every per-item
   DELETE returns a successful (2xx) status such as 204, and returns False
   only when some DELETE returned a non-success status. *)
C5_Any2xxIsSuccess ==
    (Done("delete_collection") /\ result \in {"True", "False"}) =>
        /\ (\A i \in 1..Len(ItemDeletes) : Successful(ItemDeletes[i]))
              => result = "True"
        /\ result = "False"
              => \E i \in 1..Len(ItemDeletes) :
                    Returned(ItemDeletes[i]) /\ ~Successful(ItemDeletes[i])

\* s is a decimal integer literal as int() reads it: spaces around, one
\* optional sign, then digits with single underscores between digits
C6_IsIntLiteral(s) ==
    \E i, j \in 1..Len(s) :
        /\ i <= j
        /\ \A k \in 1..(i - 1) : s[k] = " "
        /\ \A k \in (j + 1)..Len(s) : s[k] = " "
        /\ LET first == IF s[i] \in {"+", "-"} THEN i + 1 ELSE i
           IN  /\ first <= j
               /\ IsDigit(s[first])
               /\ IsDigit(s[j])
               /\ \A k \in first..j :
                     \/ IsDigit(s[k])
                     \/ s[k] = "_" /\ IsDigit(s[k - 1]) /\ IsDigit(s[k + 1])

\* the decimal numeral of the literal s: its digits without leading zeros,
\* after a minus sign when s has one and is not zero
C6_Numeral(s) ==
    LET digits == SelectSeq(s, IsDigit)
        nonzero == {i \in 1..Len(digits) : digits[i] # "0"}
        magnitude ==
            IF nonzero = {} THEN <<"0">>
            ELSE SubSeq(digits,
                        CHOOSE i \in nonzero : \A j \in nonzero : i <= j,
                        Len(digits))
        minus == \E i \in 1..Len(s) : s[i] = "-"
    IN  IF minus /\ nonzero # {} THEN <<"-">> \o magnitude ELSE magnitude

(* C6, as claimed: delete_collection_item issues exactly one DELETE, to
   <endpoint>(<n>) when item_id consists of decimal digits only, and to
   <endpoint>('<item_id>') for every other string. *)
C6_OnlyDigitStringsAreNumeric ==
    Done("delete_collection_item") =>
        /\ Len(calls) = 1
        /\ calls[1].verb = "DELETE"
        /\ calls[1].url =
              IF item_id # <<>> /\ \A i \in 1..Len(item_id) : IsDigit(item_id[i])
              THEN ItemUrl(Endpoint, C6_Numeral(item_id))
              ELSE ItemUrl(Endpoint, Quoted(item_id))

(* C6, amended: delete_collection_item issues exactly one DELETE, to
   <endpoint>(<n>) with n = int(item_id) in decimal whenever int() accepts
   item_id (optional surrounding whitespace, an optional sign, digits with
   single underscores between them), and to <endpoint>('<item_id>') for
   every other string. *)
C6_IntLiteralsAreNumeric ==
    Done("delete_collection_item") =>
        /\ Len(calls) = 1
        /\ calls[1].verb = "DELETE"
        /\ calls[1].url =
              IF C6_IsIntLiteral(item_id)
              THEN ItemUrl(Endpoint, C6_Numeral(item_id))
              ELSE ItemUrl(Endpoint, Quoted(item_id))

\* item_id '5_5' is addressed as <endpoint>(55)
C6_Witness ==
    /\ Done("delete_collection_item")
    /\ item_id = <<"5", "_", "5">>
    /\ Len(calls) = 1
    /\ calls[1].url = ItemUrl(Endpoint, <<"5", "5">>)

(* C7: add_collection fails with NotImplementedError for every input, in
   every adapter state and after any prior operations, and issues no HTTP
   call. *)
C7_AddCollectionNotImplemented ==
    /\ pc = "idle" => ENABLED AddCollection
    /\ Done("add_collection") =>
          (result = "NotImplementedError" /\ calls = <<>>)

\* add_collection called after a delete_collection has succeeded
C7_Witness ==
    /\ Done("add_collection")
    /\ emptied # NoEndpoint
    /\ result = "NotImplementedError"

(* C8: has_collection returns True for every input, whatever ran before (a
   successful delete_collection of the same collection included), and
   issues no HTTP call. *)
C8_HasCollectionAlwaysTrue ==
    /\ pc = "idle" => ENABLED HasCollection
    /\ Done("has_collection") => (result = "True" /\ calls = <<>>)

\* has_collection on the collection a delete_collection has just emptied
C8_Witness ==
    /\ Done("has_collection")
    /\ emptied = Endpoint
    /\ result = "True"

(* C9: the endpoint of a collection identifier is the base URL joined with
   the identifier's last dot-separated segment only (the whole identifier
   when it has no dot), and every request of delete_collection,
   upsert_collection_items and delete_collection_item goes to that endpoint
   or to an item path under it. *)
C9_EndpointIsTrailingSegment ==
    /\ pc = "done" =>
          /\ sta_id(collection_id) = Endpoint
          /\ \A i \in 1..Len(calls) : IsUnder(calls[i].url, Endpoint)
    /\ pc = "idle" =>
          \A c, d \in CollectionIds :
              TrailingSegment(c) = TrailingSegment(d) => sta_id(c) = sta_id(d)

\* a request made for an identifier with a dot after a non-empty prefix
C9_Witness ==
    /\ pc = "done"
    /\ Len(calls) >= 1
    /\ Len(collection_id) >= 2
    /\ collection_id[1] # "."
    /\ collection_id[Len(collection_id)] = "."
    /\ calls[1].url = url \o <<"/">>

\* the URLs the other methods use for an entity e of collection c
C10_ItemDeleteUrl(c, e) ==
    delete_collection_item(c, Format(e),
                           [raised |-> FALSE, status_code |-> 200]).calls[1].url
C10_UpsertUrl(c, e, verb) ==
    upsert_collection_items(
        c, <<e>>, verb, <<[raised |-> FALSE, status_code |-> 200]>>).calls[1].url

(* C10: the path that addresses an item depends only on the collection and
   the item's identifier: a PATCH through upsert_collection_items, a DELETE
   through upsert_collection_items, delete_collection and
   delete_collection_item all use the same <entitySet>(<id>) path. *)
C10_OneAddressPerItem ==
    /\ (Done("upsert_collection_items") /\ method \in {"PATCH", "DELETE"}) =>
          \A i \in 1..Len(calls) :
              /\ calls[i].url = C10_ItemDeleteUrl(collection_id, items[i])
              /\ calls[i].url = C10_UpsertUrl(collection_id, items[i], "PATCH")
              /\ calls[i].url = C10_UpsertUrl(collection_id, items[i], "DELETE")
    /\ Done("delete_collection") =>
          \A i \in 1..Len(ItemDeletes) :
              /\ ItemDeletes[i].url
                    = C10_ItemDeleteUrl(collection_id, listing[i])
              /\ ItemDeletes[i].url
                    = C10_UpsertUrl(collection_id, listing[i], "PATCH")

====
